---- MODULE Spec2Model ----
(***************************************************************************)
(* A model of fargo's SDK layout resolution (sdk.rs), cross-build tool     *)
(* invocation (cross.rs) and manifest dependency extraction (gn_deps.rs).  *)
(*                                                                         *)
(* Paths are sequences of component names (<<>> is the filesystem root).   *)
(* Option<T> is a sequence of length at most one: <<>> is None, <<v>> is   *)
(* Some(v).  Text is a sequence of tokens.                                 *)
(***************************************************************************)
EXTENDS Naturals, Sequences, FiniteSets, TLC

VARIABLES
    \* ---- sdk.rs: tree locator ----
    fs,            \* directory on the chain -> kind of its out/debug-x64 and out/release-x64 entry
    FUCHSIA_ROOT,  \* Option<path>: the environment variable
    cwd,           \* env::current_dir()
    release_os,    \* TargetOptions.release_os
    pc,            \* position inside target_out_dir / fuchsia_root
    path,          \* the loop variable `path` of fuchsia_root
    visited,       \* the candidates the loop has tested, in order
    rootResult,    \* Option<Result>: what fuchsia_root returned
    outResult,     \* Option<Result>: what target_out_dir returned
    \* ---- sdk.rs: FuchsiaConfig::new ----
    config,        \* the FuchsiaConfig being filled
    one_line,      \* the loop variable `one_line`
    lineNo,        \* how many lines the loop has taken from the file
    cfgPc,         \* position inside FuchsiaConfig::new
    cfgResult,     \* Option<Result>: what FuchsiaConfig::new returned
    \* ---- gn_deps.rs: get_dependency_names ----
    manifest,      \* the manifest text, as the TOML document it holds
    depPc,         \* position of the call
    depResult,     \* Option<Result>: what get_dependency_names returned
    \* ---- cross.rs: run_pkg_config and run_configure ----
    crossIn,       \* the arguments and the environment of the call
    crossPc,       \* position of the call
    cmd,           \* Option<Command>: the command handed to status()
    child,         \* Option<outcome>: how the child process ended
    crossResult    \* Option<Result>: what the call returned

rootVars == <<fs, FUCHSIA_ROOT, cwd, release_os, pc, path, visited, rootResult, outResult>>

cfgVars == <<config, one_line, lineNo, cfgPc, cfgResult>>

depVars == <<manifest, depPc, depResult>>

crossVars == <<crossIn, crossPc, cmd, child, crossResult>>

vars == <<rootVars, cfgVars, depVars, crossVars>>

----------------------------------------------------------------------------
(* Bounds *)

MaxDepth == 2

\* Tokens after the first word of a config line.
MaxTailLen == 4

\* Lines in the config file.
MaxLines == 2

\* Entries of a manifest's dependency table.
MaxDeps == 3

\* Caller-supplied arguments of a tool invocation.
MaxArgs == 2

----------------------------------------------------------------------------
(* sdk.rs *)

DirPool == <<"fuchsia", "garnet", "bin", "examples", "src", "lib">>

ChainPath(d) == SubSeq(DirPool, 1, d)

\* The directories that exist: the working directory's chain, down to MaxDepth.
ChainDirs == {ChainPath(d) : d \in 0..MaxDepth}

\* Two paths outside the chain, for the override variable.
RegularFilePath == <<"tmp", "file">>
MissingPath == <<"nonexistent">>

Kind == {"absent", "file", "dir"}

target_cpu == "x64"

\* Path::parent giving None one level early, for a top-level directory too.
ParentStopsEarly(p) == IF Len(p) <= 1 THEN <<>> ELSE <<SubSeq(p, 1, Len(p) - 1)>>

\* Path::parent: None for the root, else the path without its last component.
Parent(p) == IF p = <<>> THEN <<>> ELSE <<SubSeq(p, 1, Len(p) - 1)>>

\* Path::exists in the place of Path::is_dir.
IsDirOrFile(p) == p \in ChainDirs \cup {RegularFilePath}

\* Path::is_dir
IsDir(p) == p \in ChainDirs

Ok(p) == [tag |-> "Ok", path |-> p, err |-> "none"]
Err(e) == [tag |-> "Err", path |-> <<>>, err |-> e]

\* Line 80 with the two names exchanged.
OutDirNamePrefixSwapped(rel) == IF rel THEN "debug" ELSE "release"

\* Line 80.
OutDirNamePrefix(rel) == IF rel THEN "release" ELSE "debug"

\* Path::exists of <root>/out/<prefix>-<cpu>
TargetOutDirExists(root, rel) ==
    /\ root \in ChainDirs
    /\ fs[root][OutDirNamePrefix(rel)] # "absent"

possible_target_out_dir(root, rel) ==
    IF ~TargetOutDirExists(root, rel)
    THEN Err("NotFoundError")
    ELSE Ok(root \o <<"out", OutDirNamePrefix(rel), target_cpu>>)

EmptyConfig ==
    [fuchsia_build_dir |-> <<>>, fuchsia_variant |-> <<>>,
     fuchsia_arch |-> <<>>, zircon_project |-> <<>>]

\* The parser's variables while another component runs.
CfgIdle ==
    /\ config = EmptyConfig
    /\ one_line = <<>>
    /\ lineNo = 0
    /\ cfgPc = "idle"
    /\ cfgResult = <<>>

\* The extractor's variables while another component runs.
DepIdle ==
    /\ manifest = [syntax |-> "malformed", dependencies |-> <<>>]
    /\ depPc = "idle"
    /\ depResult = <<>>

\* The composer's variables while another component runs.
CrossIdle ==
    /\ crossIn = [op |-> "none", verbose |-> FALSE, use_host |-> FALSE, args |-> <<>>,
                  HOME |-> <<>>, LDFLAGS |-> <<>>, root |-> <<>>, cwd |-> <<>>]
    /\ crossPc = "idle"
    /\ cmd = <<>>
    /\ child = <<>>
    /\ crossResult = <<>>

\* The locator's variables while another component runs.
RootIdle ==
    /\ fs = [d \in ChainDirs |-> [debug |-> "absent", release |-> "absent"]]
    /\ FUCHSIA_ROOT = <<>>
    /\ cwd = <<>>
    /\ release_os = FALSE
    /\ pc = "idle"
    /\ path = <<>>
    /\ visited = <<>>
    /\ rootResult = <<>>
    /\ outResult = <<>>

InitRoot ==
    /\ CfgIdle
    /\ DepIdle
    /\ CrossIdle
    /\ fs \in [ChainDirs -> [debug : Kind, release : Kind]]
    /\ FUCHSIA_ROOT \in {<<>>} \cup {<<p>> : p \in ChainDirs \cup {RegularFilePath, MissingPath}}
    /\ cwd \in ChainDirs
    /\ release_os \in BOOLEAN
    /\ pc = "call"
    /\ path = <<>>
    /\ visited = <<>>
    /\ rootResult = <<>>
    /\ outResult = <<>>

\* fuchsia_root, lines 46-56: the override variable, or the start of the search.
FuchsiaRootEnv ==
    /\ pc = "call"
    /\ IF FUCHSIA_ROOT # <<>>
       THEN /\ rootResult' = IF ~IsDir(FUCHSIA_ROOT[1])
                             THEN <<Err("ConfigurationError")>>
                             ELSE <<Ok(FUCHSIA_ROOT[1])>>
            /\ pc' = "returned"
            /\ UNCHANGED path
       ELSE /\ path' = cwd
            /\ pc' = "loop"
            /\ UNCHANGED rootResult
    /\ UNCHANGED <<fs, FUCHSIA_ROOT, cwd, release_os, visited, outResult>>
    /\ UNCHANGED <<cfgVars, depVars, crossVars>>

\* fuchsia_root, lines 57-70: one iteration of the ascending loop.
FuchsiaRootLoop ==
    /\ pc = "loop"
    /\ visited' = Append(visited, path)
    /\ IF possible_target_out_dir(path, release_os).tag = "Ok"
       THEN /\ rootResult' = <<Ok(path)>>
            /\ pc' = "returned"
            /\ UNCHANGED path
       ELSE IF Parent(path) # <<>>
            THEN /\ path' = Parent(path)[1]
                 /\ UNCHANGED <<pc, rootResult>>
            ELSE /\ rootResult' = <<Err("NotFoundError")>>
                 /\ pc' = "returned"
                 /\ UNCHANGED path
    /\ UNCHANGED <<fs, FUCHSIA_ROOT, cwd, release_os, outResult>>
    /\ UNCHANGED <<cfgVars, depVars, crossVars>>

\* target_out_dir joining the path without testing that it exists.
TargetOutDirUnchecked ==
    /\ pc = "returned"
    /\ outResult' = IF rootResult[1].tag = "Err"
                    THEN rootResult
                    ELSE <<Ok(rootResult[1].path
                                  \o <<"out", OutDirNamePrefix(release_os), target_cpu>>)>>
    /\ pc' = "done"
    /\ UNCHANGED <<fs, FUCHSIA_ROOT, cwd, release_os, path, visited, rootResult>>
    /\ UNCHANGED <<cfgVars, depVars, crossVars>>

\* target_out_dir, lines 90-91: propagate the error or re-validate the root.
TargetOutDir ==
    /\ pc = "returned"
    /\ outResult' = IF rootResult[1].tag = "Err"
                    THEN rootResult
                    ELSE <<possible_target_out_dir(rootResult[1].path, release_os)>>
    /\ pc' = "done"
    /\ UNCHANGED <<fs, FUCHSIA_ROOT, cwd, release_os, path, visited, rootResult>>
    /\ UNCHANGED <<cfgVars, depVars, crossVars>>

NextRoot == FuchsiaRootEnv \/ FuchsiaRootLoop \/ TargetOutDir

SpecRoot == InitRoot /\ [][NextRoot]_vars

FairSpecRoot == SpecRoot /\ WF_vars(NextRoot)

----------------------------------------------------------------------------
(* sdk.rs: FuchsiaConfig *)

KeyNames == {"FUCHSIA_BUILD_DIR", "FUCHSIA_VARIANT", "FUCHSIA_ARCH", "ZIRCON_PROJECT"}

RECURSIVE SeqsUpTo(_, _)
\* The sequences over S of length at most n.
SeqsUpTo(S, n) ==
    IF n = 0 THEN {<<>>}
    ELSE LET shorter == SeqsUpTo(S, n - 1)
         IN  shorter \cup {Append(t, c) : t \in shorter, c \in S}

\* A line of the file: an optional first word (a known key or another word,
\* possibly after a blank), then '=', '"' and value characters.
LineHeads ==
    {<<>>} \cup {<<k>> : k \in KeyNames \cup {"OTHER"}}
           \cup {<<" ", k>> : k \in KeyNames \cup {"OTHER"}}

Lines == {h \o t : h \in LineHeads, t \in SeqsUpTo({"=", "\"", "x"}, MaxTailLen)}

\* str::splitn(2, sep): split at the first sep only.
SplitOnce(s, sep) ==
    IF \A i \in 1..Len(s) : s[i] # sep
    THEN <<s>>
    ELSE LET i == CHOOSE i \in 1..Len(s) :
                      s[i] = sep /\ \A j \in 1..(i - 1) : s[j] # sep
         IN  <<SubSeq(s, 1, i - 1), SubSeq(s, i + 1, Len(s))>>

RECURSIVE Split(_, _)
\* str::split(sep): the pieces between the occurrences of sep, all of them.
Split(s, sep) ==
    IF \A i \in 1..Len(s) : s[i] # sep
    THEN <<s>>
    ELSE LET i == CHOOSE i \in 1..Len(s) :
                      s[i] = sep /\ \A j \in 1..(i - 1) : s[j] # sep
         IN  <<SubSeq(s, 1, i - 1)>> \o Split(SubSeq(s, i + 1, Len(s)), sep)

RECURSIVE TrimMatches(_, _)
\* str::trim_matches(c): drop every leading and every trailing c.
TrimMatches(s, c) ==
    IF s # <<>> /\ s[1] = c THEN TrimMatches(Tail(s), c)
    ELSE IF s # <<>> /\ s[Len(s)] = c THEN TrimMatches(SubSeq(s, 1, Len(s) - 1), c)
    ELSE s

\* The body of the loop, lines 167-184.
MatchLine(c, line) ==
    LET parts == Split(line, "=")
    IN  IF Len(parts) = 2
        THEN IF parts[1] = <<"FUCHSIA_BUILD_DIR">>
             THEN [c EXCEPT !.fuchsia_build_dir = TrimMatches(parts[2], "\"")]
             ELSE IF parts[1] = <<"FUCHSIA_VARIANT">>
             THEN [c EXCEPT !.fuchsia_variant = TrimMatches(parts[2], "\"")]
             ELSE IF parts[1] = <<"FUCHSIA_ARCH">>
             THEN [c EXCEPT !.fuchsia_arch = TrimMatches(parts[2], "\"")]
             ELSE IF parts[1] = <<"ZIRCON_PROJECT">>
             THEN [c EXCEPT !.zircon_project = TrimMatches(parts[2], "\"")]
             ELSE c
        ELSE c

CfgOk(c) == [tag |-> "Ok", config |-> c, err |-> "none"]
CfgErr(e) == [tag |-> "Err", config |-> EmptyConfig, err |-> e]

InitConfig ==
    /\ RootIdle
    /\ DepIdle
    /\ CrossIdle
    /\ config = EmptyConfig
    /\ one_line = <<>>
    /\ lineNo = 0
    /\ cfgPc = "open"
    /\ cfgResult = <<>>

\* Lines 161-165: locate the root, open and read <root>/.config.
ConfigOpen ==
    /\ cfgPc = "open"
    /\ \E outcome \in {"read", "ConfigurationError", "NotFoundError", "IoError"} :
           IF outcome = "read"
           THEN cfgPc' = "lines" /\ UNCHANGED cfgResult
           ELSE cfgPc' = "done" /\ cfgResult' = <<CfgErr(outcome)>>
    /\ UNCHANGED <<config, one_line, lineNo>>
    /\ UNCHANGED <<rootVars, depVars, crossVars>>

\* Line 166: the iterator yields the next line of the file.
ConfigNextLine ==
    /\ cfgPc = "lines"
    /\ lineNo < MaxLines
    /\ \E l \in Lines : one_line' = l
    /\ lineNo' = lineNo + 1
    /\ cfgPc' = "match"
    /\ UNCHANGED <<config, cfgResult>>
    /\ UNCHANGED <<rootVars, depVars, crossVars>>

\* Lines 167-184: one pass of the loop body; `one_line` goes out of scope.
ConfigMatchLine ==
    /\ cfgPc = "match"
    /\ config' = MatchLine(config, one_line)
    /\ one_line' = <<>>
    /\ cfgPc' = "lines"
    /\ UNCHANGED <<lineNo, cfgResult>>
    /\ UNCHANGED <<rootVars, depVars, crossVars>>

\* Line 186: the iterator is exhausted.
ConfigReturn ==
    /\ cfgPc = "lines"
    /\ cfgResult' = <<CfgOk(config)>>
    /\ cfgPc' = "done"
    /\ UNCHANGED <<config, one_line, lineNo>>
    /\ UNCHANGED <<rootVars, depVars, crossVars>>

NextConfig == ConfigOpen \/ ConfigNextLine \/ ConfigMatchLine \/ ConfigReturn

SpecConfig == InitConfig /\ [][NextConfig]_vars

----------------------------------------------------------------------------
(* gn_deps.rs *)

\* Crate names, in the order a BTreeMap iterates them.
NamePool ==
    <<"fdio", "fidl", "fuchsia-zircon", "futures", "mxruntime", "tokio-core", "tokio-fuchsia">>

DepNames == {NamePool[i] : i \in 1..MaxDeps}

\* The shapes of a toml::Value.
ValueKinds == {"String", "Integer", "Array", "Table"}

\* The dependency tables: some names, each with a value of some shape.
DepTables == UNION {[K -> {"String", "Array", "Table"}] : K \in SUBSET DepNames}

\* What toml::from_str makes of the text: a syntax error, or a Manifest whose
\* `dependencies` is None, a value that is no table, or a table.
Manifests ==
    {[syntax |-> "malformed", dependencies |-> <<>>]}
    \cup {[syntax |-> "ok", dependencies |-> <<>>]}
    \cup {[syntax |-> "ok", dependencies |-> <<[kind |-> k, table |-> <<>>]>>] :
              k \in ValueKinds \ {"Table"}}
    \cup {[syntax |-> "ok", dependencies |-> <<[kind |-> "Table", table |-> t]>>] :
              t \in DepTables}

\* The keys of a table in iteration order.
SortedKeys(t) ==
    LET idx == {i \in 1..Len(NamePool) : NamePool[i] \in DOMAIN t}
        nth[n \in 0..Cardinality(idx)] ==
            IF n = 0 THEN 0
            ELSE CHOOSE i \in idx : i > nth[n - 1] /\ \A j \in idx : j > nth[n - 1] => i <= j
    IN  [n \in 1..Cardinality(idx) |-> NamePool[nth[n]]]

DepOk(names) == [tag |-> "Ok", names |-> names]
DepErr(e, k) == [tag |-> "Err", err |-> e, key |-> k]

\* Lines 43-50 with a non-string entry skipped instead of rejected.
RECURSIVE CollectDepsSkipping(_, _, _)
CollectDepsSkipping(table, keys, dep_set) ==
    IF keys = <<>> THEN DepOk(dep_set)
    ELSE IF table[Head(keys)] = "String"
    THEN CollectDepsSkipping(table, Tail(keys), dep_set \cup {Head(keys)})
    ELSE CollectDepsSkipping(table, Tail(keys), dep_set)

\* Lines 43-50 with the set replaced, not extended, by each key.
RECURSIVE CollectDepsLast(_, _, _)
CollectDepsLast(table, keys, dep_set) ==
    IF keys = <<>> THEN DepOk(dep_set)
    ELSE IF table[Head(keys)] = "String"
    THEN CollectDepsLast(table, Tail(keys), {Head(keys)})
    ELSE DepErr("SchemaError", Head(keys))

\* Lines 43-51: the loop over the table, then Ok(dep_set).
RECURSIVE CollectDeps(_, _, _)
CollectDeps(table, keys, dep_set) ==
    IF keys = <<>> THEN DepOk(dep_set)
    ELSE IF table[Head(keys)] = "String"
    THEN CollectDeps(table, Tail(keys), dep_set \cup {Head(keys)})
    ELSE DepErr("SchemaError", Head(keys))

get_dependency_names(m) ==
    IF m.syntax # "ok" THEN DepErr("ParseError", "")
    ELSE IF m.dependencies = <<>> THEN DepErr("MissingSectionError", "")
    ELSE IF m.dependencies[1].kind # "Table" THEN DepErr("SchemaError", "")
    ELSE CollectDeps(m.dependencies[1].table, SortedKeys(m.dependencies[1].table), {})

InitDeps ==
    /\ RootIdle
    /\ CfgIdle
    /\ CrossIdle
    /\ manifest \in Manifests
    /\ depPc = "call"
    /\ depResult = <<>>

GetDependencyNames ==
    /\ depPc = "call"
    /\ depResult' = <<get_dependency_names(manifest)>>
    /\ depPc' = "done"
    /\ UNCHANGED manifest
    /\ UNCHANGED <<rootVars, cfgVars, crossVars>>

NextDeps == GetDependencyNames

SpecDeps == InitDeps /\ [][NextDeps]_vars

----------------------------------------------------------------------------
(* cross.rs *)

\* A path as text: its components, each after a separator.
RECURSIVE PathText(_)
PathText(p) == IF p = <<>> THEN <<>> ELSE PathText(SubSeq(p, 1, Len(p) - 1)) \o <<"/", p[Len(p)]>>

ArgPool == <<"--libs", "zlib", "--cflags", "--static">>

ArgWords == {ArgPool[i] : i \in 1..2}

\* How a child process can end: status() fails, it exits with a code, or a
\* signal ends it.
ChildOutcomes ==
    {[how |-> "spawn_failed", code |-> 0], [how |-> "signal", code |-> 0]}
    \cup {[how |-> "exit", code |-> c] : c \in {0, 1, 2, 255}}

CrossOk(v) == [tag |-> "Ok", value |-> v, err |-> "none"]
CrossErr(e) == [tag |-> "Err", value |-> 0, err |-> e]

\* cross_root, lines 12-16; the caller has checked HOME.
cross_root(home) == home \o <<".fargo", "native_deps", target_cpu>>

\* pkg_config_path, lines 18-20.
pkg_config_path(home) == cross_root(home) \o <<"lib", "pkgconfig">>

\* sdk.rs sysroot_path, lines 109-113, with the root fuchsia_root gave.
sysroot_path(root) ==
    root \o <<"out", "build-zircon",
              IF target_cpu = "x64" THEN "build-user-x86-64" ELSE "build-user-arm64",
              "sysroot">>

\* sdk.rs toolchain_path, lines 115-118, on a Linux host.
toolchain_path(root) == root \o <<"buildtools", "linux-x64", "clang">>

\* Lines 41-44: the value for an ExitStatus; a signal counted as success.
StatusValueSignalOk(outcome) == IF outcome.how = "exit" THEN outcome.code ELSE 0

\* Lines 41-44: the value for an ExitStatus.
StatusValue(outcome) == IF outcome.how = "exit" THEN outcome.code ELSE 1

\* Lines 77-81.
common_c_flags(root, home) ==
    <<"--sysroot=">> \o PathText(sysroot_path(root))
        \o <<" ", "--target=x86_64-fuchsia", " ", "-fPIC", " ", "-I">>
        \o PathText(cross_root(home) \o <<"include">>)

\* Lines 83-84.
ld_flags(prev, root, home) ==
    (IF prev = <<>> THEN <<>> ELSE prev[1]) \o <<" ">> \o common_c_flags(root, home)
        \o <<" ", "-L">> \o PathText(cross_root(home) \o <<"lib">>)

\* Lines 91-99 with the host triple pushed whatever use_host says.
configure_args_always_host(use_host, home) ==
    <<<<"--host=x86_64-fuchsia-elf">>>> \o <<<<"--prefix=">> \o PathText(cross_root(home))>>

\* Lines 91-99.
configure_args(use_host, home) ==
    (IF use_host THEN <<<<"--host=x86_64-fuchsia-elf">>>> ELSE <<>>)
        \o <<<<"--prefix=">> \o PathText(cross_root(home))>>

\* The three variables both tools get, lines 31-33 and 114-116.
PkgConfigEnv(home) ==
    [PKG_CONFIG_PATH |-> <<>>,
     PKG_CONFIG_LIBDIR |-> PathText(pkg_config_path(home)),
     PKG_CONFIG_ALL_STATIC |-> <<"1">>]

\* Lines 28-33.
PkgConfigCommand(in) ==
    [program |-> <<"pkg-config">>,
     args |-> in.args,
     env |-> PkgConfigEnv(in.HOME[1])]

\* Lines 101-116.
ConfigureCommand(in) ==
    LET root == in.root[1]
        home == in.HOME[1]
        bin == toolchain_path(root) \o <<"bin">>
    IN  [program |-> PathText(in.cwd[1] \o <<"configure">>),
         args |-> configure_args(in.use_host, home) \o in.args,
         env |-> [CC |-> PathText(bin \o <<"clang">>),
                  CXX |-> PathText(bin \o <<"clang++">>),
                  RANLIB |-> PathText(bin \o <<"llvm-ranlib">>),
                  LD |-> PathText(bin \o <<"llvm-lld">>),
                  AR |-> PathText(bin \o <<"llvm-ar">>),
                  CFLAGS |-> common_c_flags(root, home),
                  CXXFLAGS |-> common_c_flags(root, home),
                  CPPFLAGS |-> common_c_flags(root, home),
                  LDFLAGS |-> ld_flags(in.LDFLAGS, root, home)]
                 @@ PkgConfigEnv(home)]

\* The caller's argument lists: each argument one word of text.
ArgLists == {[i \in 1..Len(ws) |-> <<ws[i]>>] : ws \in SeqsUpTo(ArgWords, MaxArgs)}

HomeValues == {<<>>, <<<<"home", "dev">>>>}

InitCross ==
    /\ RootIdle
    /\ CfgIdle
    /\ DepIdle
    /\ crossIn \in
           [op : {"run_pkg_config"}, verbose : BOOLEAN, use_host : {FALSE}, args : ArgLists,
            HOME : HomeValues, LDFLAGS : {<<>>}, root : {<<>>}, cwd : {<<>>}]
           \cup
           [op : {"run_configure"}, verbose : BOOLEAN, use_host : BOOLEAN, args : ArgLists,
            HOME : HomeValues, LDFLAGS : {<<>>, <<<<"-O2">>>>},
            root : {<<>>, <<<<"fuchsia">>>>},
            cwd : {<<>>, <<<<"fuchsia", "third_party", "zlib">>>>}]
    /\ crossPc = "call"
    /\ cmd = <<>>
    /\ child = <<>>
    /\ crossResult = <<>>

\* run_pkg_config, lines 22-45.  The environment variable error of
\* pkg_config_path comes before the spawn.
RunPkgConfig ==
    /\ crossPc = "call"
    /\ crossIn.op = "run_pkg_config"
    /\ IF crossIn.HOME = <<>>
       THEN /\ crossResult' = <<CrossErr("VarError")>>
            /\ UNCHANGED <<cmd, child>>
       ELSE /\ cmd' = <<PkgConfigCommand(crossIn)>>
            /\ \E outcome \in ChildOutcomes :
                   /\ child' = <<outcome>>
                   /\ crossResult' = IF outcome.how = "spawn_failed"
                                     THEN <<CrossErr("ProcessError")>>
                                     ELSE <<CrossOk(StatusValue(outcome))>>
    /\ crossPc' = "done"
    /\ UNCHANGED crossIn
    /\ UNCHANGED <<rootVars, cfgVars, depVars>>

\* run_configure, lines 47-123.  crossIn.cwd is None when the working
\* directory cannot be canonicalized, crossIn.root when fuchsia_root fails.
RunConfigure ==
    /\ crossPc = "call"
    /\ crossIn.op = "run_configure"
    /\ IF crossIn.cwd = <<>>
       THEN /\ crossResult' = <<CrossErr("ProcessError")>>
            /\ UNCHANGED <<cmd, child>>
       ELSE IF crossIn.HOME = <<>>
       THEN /\ crossResult' = <<CrossErr("VarError")>>
            /\ UNCHANGED <<cmd, child>>
       ELSE IF crossIn.root = <<>>
       THEN /\ crossResult' = <<CrossErr("NotFoundError")>>
            /\ UNCHANGED <<cmd, child>>
       ELSE /\ cmd' = <<ConfigureCommand(crossIn)>>
            /\ \E outcome \in ChildOutcomes :
                   /\ child' = <<outcome>>
                   /\ crossResult' = IF outcome.how = "spawn_failed"
                                     THEN <<CrossErr("ProcessError")>>
                                     ELSE <<CrossOk(outcome.how = "exit" /\ outcome.code = 0)>>
    /\ crossPc' = "done"
    /\ UNCHANGED crossIn
    /\ UNCHANGED <<rootVars, cfgVars, depVars>>

NextCross == RunPkgConfig \/ RunConfigure

SpecCross == InitCross /\ [][NextCross]_vars

----------------------------------------------------------------------------
(* Properties of the tree locator *)

ModeOf(rel) == IF rel THEN "release" ELSE "debug"

\* The directories from p up to the filesystem root.
Ancestors(p) == {SubSeq(p, 1, k) : k \in 0..Len(p)}

\* <q>/out/<debug|release>-x64 is present, whatever it is.
Present(q) == fs[q][ModeOf(release_os)] # "absent"

\* The chain start, parent(start), ..., filesystem root.
AscendingChain(p) == [i \in 1..(Len(p) + 1) |-> SubSeq(p, 1, Len(p) + 1 - i)]

Returned == rootResult # <<>>

ReturnedOk == Returned /\ rootResult[1].tag = "Ok"

ReturnedErr(e) == Returned /\ rootResult[1].tag = "Err" /\ rootResult[1].err = e

\* C1: with FUCHSIA_ROOT unset and some ancestor of the working directory
\* holding an out/<debug|release>-x64 entry, fuchsia_root returns the nearest
\* such ancestor: it is on the chain, its entry is present, and no directory
\* between it and the working directory has the entry.
C1_NearestAncestor ==
    (FUCHSIA_ROOT = <<>> /\ Returned /\ \E q \in Ancestors(cwd) : Present(q))
        => /\ ReturnedOk
           /\ rootResult[1].path \in Ancestors(cwd)
           /\ Present(rootResult[1].path)
           /\ \A q \in Ancestors(cwd) :
                  Len(q) > Len(rootResult[1].path) => ~Present(q)

\* The search started one level below the directory it returned, and the
\* filesystem root above it qualifies as well.
C1_Witness ==
    /\ FUCHSIA_ROOT = <<>>
    /\ ReturnedOk
    /\ Len(cwd) = Len(rootResult[1].path) + 1
    /\ Len(rootResult[1].path) >= 1
    /\ Present(<<>>)

NoQualifier == FUCHSIA_ROOT = <<>> /\ \A q \in Ancestors(cwd) : ~Present(q)

\* C2: with FUCHSIA_ROOT unset and no qualifying directory from the working
\* directory up to the filesystem root, the search never returns a path, and
\* it ends with NotFoundError after testing each ancestor exactly once, in
\* ascending order, the root last.
C2_SearchTerminates ==
    /\ [](NoQualifier => ~ReturnedOk)
    /\ NoQualifier ~> (ReturnedErr("NotFoundError") /\ visited = AscendingChain(cwd))

C2_Witness ==
    /\ NoQualifier
    /\ Len(cwd) >= 2
    /\ ReturnedErr("NotFoundError")
    /\ visited = AscendingChain(cwd)

OverrideIsDir == FUCHSIA_ROOT # <<>> /\ FUCHSIA_ROOT[1] \in ChainDirs

OverrideNotDir == FUCHSIA_ROOT # <<>> /\ FUCHSIA_ROOT[1] \notin ChainDirs

\* C3: when FUCHSIA_ROOT is set to a path that is not an existing directory,
\* fuchsia_root fails with ConfigurationError and no candidate is ever tested,
\* whatever the working directory and its ancestors hold.
C3_BadOverride ==
    OverrideNotDir =>
        /\ visited = <<>>
        /\ pc # "loop"
        /\ Returned => ReturnedErr("ConfigurationError")

\* The override is invalid although the working directory itself qualifies.
C3_Witness ==
    /\ OverrideNotDir
    /\ Present(cwd)
    /\ ReturnedErr("ConfigurationError")

\* C9: (the claim as stated) a root found by the ascending search, and a root
\* target_out_dir accepts, has out/<debug|release>-x64 as a directory.
C9_OnlyDirectoriesQualify ==
    /\ (FUCHSIA_ROOT = <<>> /\ ReturnedOk)
           => fs[rootResult[1].path][ModeOf(release_os)] = "dir"
    /\ (ReturnedOk /\ outResult # <<>> /\ outResult[1].tag = "Ok")
           => fs[rootResult[1].path][ModeOf(release_os)] = "dir"

\* C10: when FUCHSIA_ROOT is set to an existing directory, fuchsia_root returns
\* exactly it, without testing any candidate and whatever the working
\* directory; target_out_dir then fails with NotFoundError when the override
\* has no out/<debug|release>-x64 entry, and succeeds only with a present path.
C10_TrustedOverride ==
    OverrideIsDir =>
        /\ visited = <<>>
        /\ pc # "loop"
        /\ Returned => (ReturnedOk /\ rootResult[1].path = FUCHSIA_ROOT[1])
        /\ outResult # <<>> =>
               IF Present(FUCHSIA_ROOT[1])
               THEN /\ outResult[1].tag = "Ok"
                    /\ outResult[1].path
                           = FUCHSIA_ROOT[1] \o <<"out", ModeOf(release_os), "x64">>
               ELSE outResult[1].tag = "Err" /\ outResult[1].err = "NotFoundError"

\* The override has no build output while the working directory has one.
C10_Witness ==
    /\ OverrideIsDir
    /\ FUCHSIA_ROOT[1] # cwd
    /\ Present(cwd)
    /\ ~Present(FUCHSIA_ROOT[1])
    /\ ReturnedOk
    /\ outResult # <<>>
    /\ outResult[1].tag = "Err"

----------------------------------------------------------------------------
(* Properties of the local configuration parser *)

FieldOf(k) ==
    CASE k = "FUCHSIA_BUILD_DIR" -> "fuchsia_build_dir"
      [] k = "FUCHSIA_VARIANT" -> "fuchsia_variant"
      [] k = "FUCHSIA_ARCH" -> "fuchsia_arch"
      [] k = "ZIRCON_PROJECT" -> "zircon_project"

EqPositions(l) == {i \in 1..Len(l) : l[i] = "="}

Least(S) == CHOOSE i \in S : \A j \in S : i <= j

Greatest(S) == CHOOSE i \in S : \A j \in S : i >= j

\* Leading and trailing blanks removed.
TrimBlanks(v) ==
    LET keep == {i \in 1..Len(v) : v[i] # " "}
    IN  IF keep = {} THEN <<>> ELSE SubSeq(v, Least(keep), Greatest(keep))

\* One pair of surrounding quote characters removed.
StripOneLayer(v) ==
    IF Len(v) >= 2 /\ v[1] = "\"" /\ v[Len(v)] = "\""
    THEN SubSeq(v, 2, Len(v) - 1)
    ELSE v

\* Every leading and trailing quote character removed.
StripAllQuotes(v) ==
    LET keep == {i \in 1..Len(v) : v[i] # "\""}
    IN  IF keep = {} THEN <<>> ELSE SubSeq(v, Least(keep), Greatest(keep))

\* The rule as claimed: split once at the first '=', trim the key, assign
\* everything after the first '=' less one layer of quotes.
ClaimedLine(c, l) ==
    IF EqPositions(l) = {} THEN c
    ELSE LET i == Least(EqPositions(l))
             key == TrimBlanks(SubSeq(l, 1, i - 1))
             val == SubSeq(l, i + 1, Len(l))
         IN  IF \E k \in KeyNames : key = <<k>>
             THEN [c EXCEPT ![FieldOf(key[1])] = StripOneLayer(val)]
             ELSE c

\* The rule the parser follows: a line counts only with exactly one '=' and
\* with exactly a known key, no blanks, before it.
ExactLine(c, l) ==
    IF Cardinality(EqPositions(l)) # 1 THEN c
    ELSE LET i == Least(EqPositions(l))
             key == SubSeq(l, 1, i - 1)
             val == SubSeq(l, i + 1, Len(l))
         IN  IF \E k \in KeyNames : key = <<k>>
             THEN [c EXCEPT ![FieldOf(key[1])] = StripAllQuotes(val)]
             ELSE c

\* C6: (the claim as stated) each line is split once at its first '=', the
\* key is trimmed, and the field becomes all the text after the first '='
\* less one layer of surrounding quotes.
C6_SplitOnceTrimmedKey ==
    [][cfgPc = "match" => config' = ClaimedLine(config, one_line)]_vars

\* C6 (amended): the fields start empty; each line is split at every '='; only
\* a line with exactly one '=' whose text before it is exactly one of the four
\* keys changes anything, and it sets that key's field to the text after the
\* '=' less all its leading and trailing quote characters, leaving the other
\* three fields as they were; every other line leaves all four fields as they
\* were; nothing but a line changes a field; once the file is read the parse
\* returns the fields and never an error.
C6_ExactlyOneEquals ==
    /\ [](cfgPc = "open" => config = EmptyConfig)
    /\ [][cfgPc = "match" => config' = ExactLine(config, one_line)]_vars
    /\ [][cfgPc # "match" => config' = config]_vars
    /\ [][(cfgPc \in {"lines", "match"} /\ cfgResult' # <<>>)
              => (cfgResult'[1].tag = "Ok" /\ cfgResult'[1].config = config)]_vars

\* Two lines were read, the second set one field from a value with a quote
\* inside and the first another field; the other two fields are still empty.
C6_Witness ==
    /\ cfgPc = "done"
    /\ lineNo = 2
    /\ cfgResult # <<>>
    /\ cfgResult[1].tag = "Ok"
    /\ cfgResult[1].config.fuchsia_build_dir = <<"x", "\"", "x">>
    /\ cfgResult[1].config.fuchsia_variant = <<"x">>
    /\ cfgResult[1].config.fuchsia_arch = <<>>
    /\ cfgResult[1].config.zircon_project = <<>>

----------------------------------------------------------------------------
(* Properties of the manifest dependency extractor *)

DepsReturned == depPc = "done" /\ depResult # <<>>

HasTable ==
    /\ manifest.syntax = "ok"
    /\ manifest.dependencies # <<>>
    /\ manifest.dependencies[1].kind = "Table"

TheTable == manifest.dependencies[1].table

\* C4: for a manifest whose dependency section is a table of string values
\* only, get_dependency_names succeeds with exactly the keys of the table: as
\* many names as entries, none missing, none added.
C4_AllStringsAllNames ==
    (DepsReturned /\ HasTable /\ \A k \in DOMAIN TheTable : TheTable[k] = "String")
        => /\ depResult[1].tag = "Ok"
           /\ depResult[1].names = DOMAIN TheTable
           /\ Cardinality(depResult[1].names) = Cardinality(DOMAIN TheTable)

\* A table of three string entries gave three names.
C4_Witness ==
    /\ DepsReturned
    /\ HasTable
    /\ Cardinality(DOMAIN TheTable) = 3
    /\ \A k \in DOMAIN TheTable : TheTable[k] = "String"
    /\ depResult[1].tag = "Ok"
    /\ Cardinality(depResult[1].names) = 3

\* C5: a well-formed manifest without a dependency section ends in
\* MissingSectionError, one whose section is no table or whose table has a
\* non-string value ends in SchemaError, and in each case the result is the
\* error alone: it carries no set of names.
C5_AllOrNothing ==
    (DepsReturned /\ manifest.syntax = "ok") =>
        /\ manifest.dependencies = <<>>
               => (depResult[1].tag = "Err" /\ depResult[1].err = "MissingSectionError")
        /\ (manifest.dependencies # <<>> /\ manifest.dependencies[1].kind # "Table")
               => (depResult[1].tag = "Err" /\ depResult[1].err = "SchemaError")
        /\ (HasTable /\ \E k \in DOMAIN TheTable : TheTable[k] # "String")
               => (depResult[1].tag = "Err" /\ depResult[1].err = "SchemaError")
        /\ depResult[1].tag = "Err" => "names" \notin DOMAIN depResult[1]

\* A string entry before and a string entry after the offending one.
C5_Witness ==
    /\ DepsReturned
    /\ HasTable
    /\ DOMAIN TheTable = {NamePool[1], NamePool[2], NamePool[3]}
    /\ TheTable[NamePool[1]] = "String"
    /\ TheTable[NamePool[2]] = "Table"
    /\ TheTable[NamePool[3]] = "String"
    /\ depResult[1].tag = "Err"
    /\ depResult[1].key = NamePool[2]

----------------------------------------------------------------------------
(* Properties of the environment composer *)

\* text holds the words of part, adjacent and in order.
Contains(text, part) ==
    \E i \in 1..(Len(text) - Len(part) + 1) : SubSeq(text, i, i + Len(part) - 1) = part

Spawned == cmd # <<>>

NativeDepsText == <<"/", "home", "/", "dev", "/", ".fargo", "/", "native_deps", "/", "x64">>

SysrootText ==
    <<"/", "fuchsia", "/", "out", "/", "build-zircon", "/", "build-user-x86-64", "/", "sysroot">>

\* C7: whenever run_configure reaches the spawn, the arguments of the command
\* are --host=x86_64-fuchsia-elf exactly when use_host, then
\* --prefix=<native-dependency root>, then the caller's arguments in their
\* order; and CFLAGS, CXXFLAGS, CPPFLAGS and LDFLAGS each hold
\* --sysroot=<sysroot> and -fPIC.
C7_ConfigureCommand ==
    (crossIn.op = "run_configure" /\ Spawned) =>
        /\ cmd[1].args =
               (IF crossIn.use_host THEN <<<<"--host=x86_64-fuchsia-elf">>>> ELSE <<>>)
                   \o <<<<"--prefix=">> \o NativeDepsText>> \o crossIn.args
        /\ \A i \in 1..Len(cmd[1].args) :
               cmd[1].args[i] = <<"--host=x86_64-fuchsia-elf">> => crossIn.use_host
        /\ \A v \in {"CFLAGS", "CXXFLAGS", "CPPFLAGS", "LDFLAGS"} :
               /\ Contains(cmd[1].env[v], <<"--sysroot=">> \o SysrootText)
               /\ Contains(cmd[1].env[v], <<"-fPIC">>)

\* A spawn without the host triple, two caller arguments and an inherited
\* LDFLAGS.
C7_Witness ==
    /\ crossIn.op = "run_configure"
    /\ Spawned
    /\ ~crossIn.use_host
    /\ Len(crossIn.args) = 2
    /\ crossIn.args[1] # crossIn.args[2]
    /\ crossIn.LDFLAGS # <<>>
    /\ Len(cmd[1].args) = 3

\* C8: run_pkg_config returns the exit code of a child that exited, zero or
\* not, and 1 for a child a signal ended; it returns an error only when no
\* child ran, and ProcessError exactly when the spawn failed.
C8_PkgConfigOutcome ==
    (crossIn.op = "run_pkg_config" /\ crossPc = "done") =>
        /\ (child # <<>> /\ child[1].how = "exit")
               => (crossResult[1].tag = "Ok" /\ crossResult[1].value = child[1].code)
        /\ (child # <<>> /\ child[1].how = "signal")
               => (crossResult[1].tag = "Ok" /\ crossResult[1].value = 1)
        /\ crossResult[1].tag = "Err"
               => (child = <<>> \/ child[1].how = "spawn_failed")
        /\ (crossResult[1].tag = "Err" /\ crossResult[1].err = "ProcessError")
               <=> (child # <<>> /\ child[1].how = "spawn_failed")

\* A child ended by a signal was reported as 1.
C8_Witness ==
    /\ crossIn.op = "run_pkg_config"
    /\ crossPc = "done"
    /\ child # <<>>
    /\ child[1].how = "signal"
    /\ crossResult[1].tag = "Ok"
    /\ crossResult[1].value = 1

====
